---- MODULE Spec2Model ----
(***************************************************************************)
(* FindingLychee.ino: a GPS tracker that appends location fixes to a       *)
(* 24C256 I2C EEPROM and exports / resets the log over the serial port.    *)
(*                                                                         *)
(* The target is an 8-bit AVR Arduino: int and unsigned int are 16 bits,   *)
(* byte is 8 bits, float is 4 bytes, multi-byte objects are little-endian. *)
(***************************************************************************)
EXTENDS Integers, Naturals, Sequences, FiniteSets, TLC

(***************************************************************************)
(* Program constants.                                                      *)
(***************************************************************************)
SERIALIZED_LENGTH == 10
MAX_ITEMS_IN_MEMORY == 3275
COMMAND_HELP == 0
COMMAND_EXPORT == 1
COMMAND_RESET == 2
MODE_TRACKING == 0
MODE_COMMAND == 1
EEPROM_BYTES == 32768      \* the 24C256 holds 256 Kbit

(***************************************************************************)
(* Bounds of the model.                                                    *)
(***************************************************************************)
MaxAdds == 2         \* calls of add_location_item per run
MaxRx == 1           \* control bytes waiting in Serial's receive buffer
MaxCrashes == 1      \* power losses per run (SpecCrash)
MaxHour == 24        \* largest hour, minute and second the round-trip harness
MaxMinute == 64      \*   encodes (SpecCodec)
MaxSecond == 64
MaxStoreOps == 3     \* byte writes issued by the byte-store harness (SpecStore)
MaxSent == 2         \* control bytes the operator sends per run (SpecSerial)
MaxSensor == 1       \* receiver bytes waiting in SoftwareSerial ss (SpecSensor)
MaxFlips == 1        \* times the device stops or resumes answering (SpecFault)

(***************************************************************************)
(* 16-bit arithmetic.                                                      *)
(***************************************************************************)
U16(v) == v % 65536
S16(v) == IF U16(v) >= 32768 THEN U16(v) - 65536 ELSE U16(v)
Lo(v) == U16(v) % 256
Hi(v) == U16(v) \div 256

RECURSIVE BitOr(_, _)
BitOr(a, b) ==
  IF a = 0 THEN b
  ELSE IF b = 0 THEN a
  ELSE (IF a % 2 = 1 \/ b % 2 = 1 THEN 1 ELSE 0) + 2 * BitOr(a \div 2, b \div 2)

(***************************************************************************)
(* struct Time and struct LocationItem.  A float is its 4-byte object      *)
(* representation <<pb[0], pb[1], pb[2], pb[3]>>.                          *)
(***************************************************************************)
Time(h, m, s) == [hour |-> h, minute |-> m, second |-> s]
LocationItem(lat, lng, t) == [lat |-> lat, lng |-> lng, time |-> t]

F_32_1 == <<102, 102, 0, 66>>     \* 32.1f = 0x42006666
F_34_8 == <<51, 51, 11, 66>>      \* 34.8f = 0x420B3333
F_32_2 == <<205, 204, 0, 66>>     \* 32.2f = 0x4200CCCD
F_34_9 == <<154, 153, 11, 66>>    \* 34.9f = 0x420B999A
F_0 == <<0, 0, 0, 0>>             \*  0.0f = 0x00000000
F_M1 == <<0, 0, 128, 191>>        \* -1.0f = 0xBF800000

\* The fixes the positioning library delivers in the model.
FixList ==
  << LocationItem(F_32_1, F_34_8, Time(10, 15, 30)),
     LocationItem(F_32_2, F_34_9, Time(14, 45, 5)) >>
Fixes == { FixList[k] : k \in 1..Len(FixList) }

(***************************************************************************)
(* The EEPROM.  The device image is 32 KiB; the model keeps the bytes the  *)
(* run has written (mem) over the image the device held at power-up, which *)
(* is determined by items: slots 0..items-1 hold records written by        *)
(* earlier runs, every other byte is erased (0xFF).                        *)
(***************************************************************************)
ItemAddrNoHeader(index) == U16(index * SERIALIZED_LENGTH)
ItemAddrBySizeof(index) == U16(2 + U16(index * 11))   \* sizeof(struct LocationItem)
ItemAddr(index) == U16(2 + U16(index * SERIALIZED_LENGTH))

Hour12Mod(hour) == hour % 12
Hour12(hour) == IF hour <= 12 THEN hour ELSE hour - 12
PackTime(t) ==
  S16(BitOr(BitOr(Hour12(t.hour), U16(t.minute * 16)), U16(t.second * 1024)))

\* The 10 bytes write_location_item stores for loc, in address order.
ItemBytes(loc) ==
  loc.lng \o loc.lat \o << Lo(PackTime(loc.time)), Hi(PackTime(loc.time)) >>

EarlierBytes == [ k \in 1..Len(FixList) |-> ItemBytes(FixList[k]) ]
Image(items, a) ==
  IF a >= 2 /\ a < 2 + SERIALIZED_LENGTH * items
  THEN EarlierBytes[(((a - 2) \div SERIALIZED_LENGTH) % Len(FixList)) + 1]
                   [((a - 2) % SERIALIZED_LENGTH) + 1]
  ELSE 255

VARIABLES
  eeprom,    \* bytes written to the device since power-up of the model: address -> byte
  items,     \* number of slots the device image held before the run (never changes)
  wireOk,    \* TRUE while the device answers bus transactions
  mode,      \* int mode
  pc,        \* position of the sketch inside loop()
  wq,        \* byte writes the running function still has to issue: <<address, data>>
  rx,        \* Serial.available(): bytes waiting in Serial's receive buffer
  out,       \* lines printed to Serial during the current loop() iteration
  gpsValid,  \* gps.location.isValid()
  adds,      \* calls of add_location_item so far
  crashes,   \* power losses so far
  appended,  \* records whose add_location_item completed since base was set
  base,      \* item counter at power-up or after the last reset
  pre,       \* the function in progress and the device as it was when it started
  txns,      \* physical write transactions during the current loop() iteration
  codec,     \* state of the record harnesses (SpecCodec, SpecAddr)
  store,     \* state of the byte-store harness (SpecStore)
  serial,    \* bytes the operator sent, bytes Serial.read() returned (SpecSerial)
  ss,        \* the receiver's bytes waiting in SoftwareSerial ss (SpecSensor)
  flips      \* times the device stopped or resumed answering (SpecFault)

vars == << eeprom, items, wireOk, mode, pc, wq, rx, out, gpsValid, adds,
           crashes, appended, base, pre, txns, codec, store, serial, ss, flips >>

(***************************************************************************)
(* i2c_eeprom_read_byte / i2c_eeprom_write_byte.                           *)
(***************************************************************************)
Content(mem, a) == IF a \in DOMAIN mem THEN mem[a] ELSE Image(items, a)

\* byte rdata = 0xFF; ... if (Wire.available()) rdata = Wire.read();
I2cReadByteFailsZero(mem, a) == IF wireOk THEN Content(mem, a) ELSE 0
I2cReadByte(mem, a) == IF wireOk THEN Content(mem, a) ELSE 255

Put(mem, a, d) == [ x \in (DOMAIN mem) \cup {a} |-> IF x = a THEN d ELSE mem[x] ]

\* TRUE iff i2c_eeprom_write_byte goes on to the write transaction and delay(10).
I2cNeverSkips(mem, a, d) == TRUE
I2cTransmits(mem, a, d) == I2cReadByte(mem, a) # d

I2cWriteByte(mem, a, d) ==
  IF I2cTransmits(mem, a, d) /\ wireOk THEN Put(mem, a, d) ELSE mem

RECURSIVE ApplyWrites(_, _)
ApplyWrites(mem, ws) ==
  IF ws = << >> THEN mem
  ELSE ApplyWrites(I2cWriteByte(mem, Head(ws)[1], Head(ws)[2]), Tail(ws))

(***************************************************************************)
(* write_int / read_int / write_float / read_float / write_time /          *)
(* read_time / write_location_item / read_location_item.                   *)
(***************************************************************************)
IntWritesHighFirst(address, i) ==
  << << U16(address + 1), Hi(i) >>, << U16(address), Lo(i) >> >>
IntWrites(address, i) ==
  << << U16(address), Lo(i) >>, << U16(address + 1), Hi(i) >> >>

ReadInt(mem, address) ==
  S16(I2cReadByte(mem, U16(address)) + 256 * I2cReadByte(mem, U16(address + 1)))

FloatWrites(address, f) == [ k \in 1..4 |-> << U16(address + k - 1), f[k] >> ]

ReadFloat(mem, address) == [ k \in 1..4 |-> I2cReadByte(mem, U16(address + k - 1)) ]

TimeWrites(address, t) == IntWrites(address, PackTime(t))

ReadTime(mem, address) ==
  LET packedTime == ReadInt(mem, address)
  IN  Time(packedTime % 16, (packedTime \div 16) % 64, (packedTime \div 1024) % 64)

ItemWrites(index, loc) ==
  FloatWrites(ItemAddr(index), loc.lng)
    \o FloatWrites(ItemAddr(index) + 4, loc.lat)
    \o TimeWrites(ItemAddr(index) + 8, loc.time)

WriteLocationItem(mem, index, loc) == ApplyWrites(mem, ItemWrites(index, loc))

ReadLocationItem(mem, index) ==
  LocationItem(ReadFloat(mem, ItemAddr(index) + 4),
               ReadFloat(mem, ItemAddr(index)),
               ReadTime(mem, ItemAddr(index) + 8))

\* The addresses read_int, read_float and read_location_item hand to
\* i2c_eeprom_read_byte, in the order of the calls.
IntReads(address) == << U16(address), U16(address + 1) >>
FloatReads(address) == [ k \in 1..4 |-> U16(address + k - 1) ]
ItemReads(index) ==
  FloatReads(ItemAddr(index))
    \o FloatReads(ItemAddr(index) + 4)
    \o IntReads(ItemAddr(index) + 8)

\* The stored item counter as the unsigned 16-bit value of bytes 0 and 1.
Count(mem) == Content(mem, 0) + 256 * Content(mem, 1)

(***************************************************************************)
(* add_location_item.                                                      *)
(***************************************************************************)
\* i < MAX_ITEMS_IN_MEMORY, an int against an unsigned int: compared unsigned.
AddAllowedOffByOne(i) == U16(i) <= MAX_ITEMS_IN_MEMORY
AddAllowedSigned(i) == i < MAX_ITEMS_IN_MEMORY
AddAllowed(i) == U16(i) < MAX_ITEMS_IN_MEMORY

\* write_location_item(i, loc); i++; write_int(0, i);
AddWritesCounterFirst(i, loc) == IntWrites(0, S16(i + 1)) \o ItemWrites(U16(i), loc)
AddWrites(i, loc) == ItemWrites(U16(i), loc) \o IntWrites(0, S16(i + 1))

(***************************************************************************)
(* Serial output.  A line is a tuple whose first element names the print   *)
(* statements that produce it; the digits of a printed float are not       *)
(* modelled, an item line carries the record whose fields are printed.     *)
(***************************************************************************)
PrintLocationItem(v) == << "item", v >>

HelpLines == << <<"help", 0>>, <<"help", 1>>, <<"help", 2>>, <<"help", 3>> >>

\* execute_command_export: the lines it prints when the device holds mem.
ItemsToExportOneMore(itemsCount) == IF itemsCount + 1 > 0 THEN itemsCount + 1 ELSE 0
ItemsToExport(itemsCount) == IF itemsCount > 0 THEN itemsCount ELSE 0

ExportLines(mem) ==
  LET itemsCount == ReadInt(mem, 0)
  IN  << <<"read itemsCount=", itemsCount>> >>
        \o [ k \in 1..ItemsToExport(itemsCount) |->
               PrintLocationItem(ReadLocationItem(mem, k - 1)) ]

\* execute_command_reset: execute_command_export() comes first, on the device
\* as the command found it.
ResetExportsAfterErase(mem) == ExportLines(ApplyWrites(mem, IntWrites(0, 0)))
ResetExportLines(mem) == ExportLines(mem)

\* execute_command_reset: int zeroItems = 0; write_int(0, zeroItems);
ResetWritesSlotToo == IntWrites(0, 0) \o IntWrites(2, 0)
ResetWrites == IntWrites(0, 0)

ResetLines(mem) == << <<"Memory reset">>, <<"i=", ReadInt(mem, 0)>> >>

Echo(inChar) == << <<">>>> ", inChar>> >>

(***************************************************************************)
(* The initial state: the sketch has just been powered up on a device that *)
(* earlier runs may have written.                                          *)
(***************************************************************************)
\* <<item counter, slots holding records of earlier runs>>
InitDevices ==
  { <<0, 0>>, <<0, 2>>, <<255, 255>>,
    <<MAX_ITEMS_IN_MEMORY - 1, MAX_ITEMS_IN_MEMORY - 1>> }

\* '0', '1', '2', '7', 'x'
ControlBytes == { 48, 49, 50, 55, 120 }

NoOp == [op |-> "none"]
NoCodec == [stage |-> "off"]
NoStore == [stage |-> "off"]
NoSerial == [stage |-> "off"]
NoSensor == [stage |-> "off"]

InitSketch ==
  /\ wireOk = TRUE
  /\ flips = 0
  /\ mode = MODE_TRACKING
  /\ pc = "loop"
  /\ wq = << >>
  /\ rx = 0
  /\ out = << >>
  /\ gpsValid = FALSE
  /\ adds = 0
  /\ crashes = 0
  /\ appended = << >>
  /\ pre = NoOp
  /\ txns = 0

InitDevice(d) ==
  /\ eeprom = (0 :> Lo(d[1]) @@ 1 :> Hi(d[1]))
  /\ items = d[2]
  /\ base = d[1]

Init ==
  /\ \E d \in InitDevices : InitDevice(d)
  /\ InitSketch
  /\ codec = NoCodec
  /\ store = NoStore
  /\ serial = NoSerial
  /\ ss = NoSensor

(***************************************************************************)
(* loop(), MODE_TRACKING: gps_tracking().                                  *)
(***************************************************************************)
TrackNoFix ==
  /\ pc = "loop" /\ mode = MODE_TRACKING
  /\ ~gpsValid
  /\ out' = << <<"* ">> >>
  /\ pre' = [op |-> "nofix"]
  /\ txns' = 0
  /\ pc' = "delay"
  /\ UNCHANGED << eeprom, items, wireOk, mode, wq, rx, gpsValid, adds,
                  crashes, appended, base, codec, store, serial, ss, flips >>

\* The record is built from what the gps object holds, which is whatever fix
\* the receiver sent last.
AddLocationItem ==
  /\ pc = "loop" /\ mode = MODE_TRACKING
  /\ gpsValid
  /\ adds < MaxAdds
  /\ adds' = adds + 1
  /\ \E loc \in Fixes :
       LET i == ReadInt(eeprom, 0)
       IN  /\ out' = << <<"read i=", i, MAX_ITEMS_IN_MEMORY>> >>
           /\ pre' = [op |-> "add", i |-> i, mem |-> eeprom, loc |-> loc,
                      wire |-> wireOk, avail |-> rx > 0]
           /\ IF AddAllowed(i)
              THEN wq' = AddWrites(i, loc) /\ pc' = "add_write"
              ELSE wq' = << >> /\ pc' = "delay"
  /\ txns' = 0
  /\ UNCHANGED << eeprom, items, wireOk, mode, rx, gpsValid, crashes,
                  appended, base, codec, store, serial, ss, flips >>

\* delay(10) after a write transaction: n bytes come from the receiver while
\* it lasts, and nothing reads ss.
SettleDelay(s, n) ==
  IF s.stage = "on" THEN [s EXCEPT !.pending = @ + n, !.left = n] ELSE s

\* smartDelay: ss is read empty, again and again, until the time is up.
Drained(s) ==
  IF s.stage = "on" THEN [s EXCEPT !.pending = 0, !.left = 0] ELSE s

\* The n bytes fit ss's buffer (with no receiver in the model there are none).
SensorSends(s, n) ==
  IF s.stage = "on" THEN s.pending + n <= MaxSensor ELSE n = 0

\* One i2c_eeprom_write_byte call of the function in progress.
WriteNext ==
  /\ wq # << >>
  /\ eeprom' = I2cWriteByte(eeprom, Head(wq)[1], Head(wq)[2])
  /\ txns' = txns + (IF I2cTransmits(eeprom, Head(wq)[1], Head(wq)[2]) THEN 1 ELSE 0)
  /\ wq' = Tail(wq)
  /\ IF I2cTransmits(eeprom, Head(wq)[1], Head(wq)[2])
     THEN \E n \in 0..MaxSensor : SensorSends(ss, n) /\ ss' = SettleDelay(ss, n)
     ELSE ss' = ss

AddWrite ==
  /\ pc = "add_write"
  /\ WriteNext
  /\ IF Tail(wq) = << >>
     THEN pc' = "delay" /\ appended' = Append(appended, pre.loc)
     ELSE pc' = pc /\ appended' = appended
  /\ UNCHANGED << items, wireOk, mode, rx, out, gpsValid, adds, crashes, base,
                  pre, codec, store, serial, flips >>

\* smartDelay(3000): the bytes the receiver sent are fed to the gps object,
\* which may change what it holds.  Then the wiring warning, printed when
\* fewer than 10 characters have come from the receiver so far.  The receiver
\* has no further fix once the run's records are spent.
SmartDelay ==
  /\ pc = "delay"
  /\ gpsValid' \in BOOLEAN
  /\ gpsValid' => adds < MaxAdds
  /\ ss' = Drained(ss)
  /\ \E warn \in BOOLEAN :
       /\ warn => (~gpsValid /\ ~gpsValid')
       /\ out' = IF warn
                 THEN Append(out, << "No GPS data received: check wiring" >>)
                 ELSE out
  /\ pc' = "check"
  /\ UNCHANGED << eeprom, items, wireOk, mode, wq, rx, adds, crashes,
                  appended, base, pre, txns, codec, store, serial, flips >>

(***************************************************************************)
(* loop(), MODE_COMMAND: process_serial_command() and execute_command().   *)
(***************************************************************************)
IsDigit(inChar) == inChar >= 48 /\ inChar <= 57

\* unsigned int command = inChar - '0';
CommandOfMod(inChar) == (inChar - 48) % 3
CommandOf(inChar) == U16(inChar - 48)

\* The calls of read_int (by address) and of read_location_item (by index) a
\* command makes.
NoReads == [ints |-> {}, slots |-> {}]
ExportReads(mem) ==
  [ints |-> {0},
   slots |-> { k - 1 : k \in 1..ItemsToExport(ReadInt(mem, 0)) }]

CommandFrame ==
  UNCHANGED << items, wireOk, mode, gpsValid, adds, crashes, appended,
               base, codec, store, ss, flips >>

\* Serial.available() is 0: nothing is read.
CommandNone ==
  /\ pc = "loop" /\ mode = MODE_COMMAND
  /\ rx = 0
  /\ out' = << >>
  /\ pre' = [op |-> "idle"]
  /\ txns' = 0
  /\ pc' = "check"
  /\ UNCHANGED << eeprom, wq, rx, serial >>
  /\ CommandFrame

\* Serial.read() takes the oldest waiting byte.  No step of the sketch depends
\* on a byte before it is read, so its value is drawn when it is read.
SerialRead(inChar) ==
  /\ pc = "loop" /\ mode = MODE_COMMAND
  /\ rx > 0
  /\ inChar \in ControlBytes
  /\ serial.stage = "on" => inChar = serial.sent[Len(serial.read) + 1]
  /\ rx' = rx - 1
  /\ serial' = IF serial.stage = "on"
               THEN [serial EXCEPT !.read = Append(@, inChar)]
               ELSE serial
  /\ txns' = 0

\* A byte that is no digit, or a digit execute_command has no case for.
CommandIgnored ==
  /\ \E inChar \in ControlBytes :
       /\ SerialRead(inChar)
       /\ ~(IsDigit(inChar)
              /\ CommandOf(inChar) \in {COMMAND_HELP, COMMAND_EXPORT, COMMAND_RESET})
       /\ out' = Echo(inChar)
       /\ pre' = [op |-> "ignored", inChar |-> inChar, mem |-> eeprom,
                  wire |-> wireOk, reads |-> NoReads]
  /\ pc' = "check"
  /\ UNCHANGED << eeprom, wq >>
  /\ CommandFrame

CommandHelp ==
  /\ \E inChar \in ControlBytes :
       /\ SerialRead(inChar)
       /\ IsDigit(inChar) /\ CommandOf(inChar) = COMMAND_HELP
       /\ out' = Echo(inChar) \o HelpLines
       /\ pre' = [op |-> "help", inChar |-> inChar, mem |-> eeprom,
                  wire |-> wireOk, reads |-> NoReads]
  /\ pc' = "check"
  /\ UNCHANGED << eeprom, wq >>
  /\ CommandFrame

CommandExport ==
  /\ \E inChar \in ControlBytes :
       /\ SerialRead(inChar)
       /\ IsDigit(inChar) /\ CommandOf(inChar) = COMMAND_EXPORT
       /\ out' = Echo(inChar) \o ExportLines(eeprom)
       /\ pre' = [op |-> "export", inChar |-> inChar, mem |-> eeprom,
                  wire |-> wireOk, reads |-> ExportReads(eeprom)]
  /\ pc' = "check"
  /\ UNCHANGED << eeprom, wq >>
  /\ CommandFrame

\* execute_command_reset up to the call of write_int.
CommandReset ==
  /\ \E inChar \in ControlBytes :
       /\ SerialRead(inChar)
       /\ IsDigit(inChar) /\ CommandOf(inChar) = COMMAND_RESET
       /\ out' = Echo(inChar) \o ResetExportLines(eeprom)
       /\ pre' = [op |-> "reset", inChar |-> inChar, mem |-> eeprom,
                  wire |-> wireOk]
  /\ wq' = ResetWrites
  /\ pc' = "reset_write"
  /\ UNCHANGED << eeprom >>
  /\ CommandFrame

ResetWrite ==
  /\ pc = "reset_write"
  /\ WriteNext
  /\ pc' = IF Tail(wq) = << >> THEN "reset_read" ELSE pc
  /\ UNCHANGED << items, wireOk, mode, rx, out, gpsValid, adds, crashes,
                  appended, base, pre, codec, store, serial, flips >>

\* read_int(0, zeroItems) and the two confirmation prints.
ResetRead ==
  /\ pc = "reset_read"
  /\ out' = out \o ResetLines(eeprom)
  /\ appended' = << >>
  /\ base' = Count(eeprom)
  /\ pc' = "check"
  /\ UNCHANGED << eeprom, items, wireOk, mode, wq, rx, gpsValid, adds,
                  crashes, pre, txns, codec, store, serial, ss, flips >>

(***************************************************************************)
(* loop(): if (Serial.available()) mode = MODE_COMMAND; and the return.    *)
(***************************************************************************)
ModeToggles(m, available) == IF available THEN MODE_COMMAND ELSE MODE_TRACKING
ModeNeverSwitches(m, available) == m
ModeAfterCheck(m, available) == IF available THEN MODE_COMMAND ELSE m

ModeCheck ==
  /\ pc = "check"
  /\ mode' = ModeAfterCheck(mode, rx > 0)
  /\ pc' = "loop"
  /\ out' = << >>
  /\ pre' = NoOp
  /\ txns' = 0
  /\ UNCHANGED << eeprom, items, wireOk, wq, rx, gpsValid, adds, crashes,
                  appended, base, codec, store, serial, ss, flips >>

(***************************************************************************)
(* The environment: the operator sends a byte; the power fails.            *)
(***************************************************************************)
\* A byte may arrive between any two steps of the sketch.
SerialArrive ==
  /\ rx < MaxRx
  /\ rx' = rx + 1
  /\ IF serial.stage = "on"
     THEN /\ Len(serial.sent) < MaxSent
          /\ \E b \in ControlBytes : serial' = [serial EXCEPT !.sent = Append(@, b)]
     ELSE serial' = serial
  /\ UNCHANGED << eeprom, items, wireOk, mode, pc, wq, out, gpsValid, adds,
                  crashes, appended, base, pre, txns, codec, store, ss, flips >>

\* Power is lost and restored: the EEPROM keeps its bytes, the sketch restarts.
PowerLoss ==
  /\ crashes < MaxCrashes
  /\ crashes' = crashes + 1
  /\ mode' = MODE_TRACKING
  /\ pc' = "loop"
  /\ wq' = << >>
  /\ rx' = 0
  /\ out' = << >>
  /\ gpsValid' = FALSE
  /\ appended' = << >>
  /\ base' = Count(eeprom)
  /\ pre' = NoOp
  /\ txns' = 0
  /\ UNCHANGED << eeprom, items, wireOk, adds, codec, store, serial, ss, flips >>

Next ==
  \/ TrackNoFix
  \/ AddLocationItem
  \/ AddWrite
  \/ SmartDelay
  \/ CommandNone
  \/ CommandIgnored
  \/ CommandHelp
  \/ CommandExport
  \/ CommandReset
  \/ ResetWrite
  \/ ResetRead
  \/ ModeCheck
  \/ SerialArrive

Spec == Init /\ [][Next]_vars

NextCrash == Next \/ PowerLoss

\* The runs with power losses start on the devices whose counter is about to
\* carry into its high byte or has stale slots behind it.
InitCrash ==
  /\ \E d \in { <<0, 2>>, <<255, 255>> } : InitDevice(d)
  /\ InitSketch
  /\ codec = NoCodec
  /\ store = NoStore
  /\ serial = NoSerial
  /\ ss = NoSensor

SpecCrash == InitCrash /\ [][NextCrash]_vars

(***************************************************************************)
(* The runs in which the control bytes keep their values from the moment   *)
(* the operator sends them.  loop() is called again whenever it returns,   *)
(* and every function of the sketch returns: the steps of the sketch are   *)
(* weakly fair; the operator is free to send nothing.                      *)
(***************************************************************************)
Sketch ==
  \/ TrackNoFix
  \/ AddLocationItem
  \/ AddWrite
  \/ SmartDelay
  \/ CommandNone
  \/ CommandIgnored
  \/ CommandHelp
  \/ CommandExport
  \/ CommandReset
  \/ ResetWrite
  \/ ResetRead
  \/ ModeCheck

InitSerial ==
  /\ \E d \in { <<0, 2>>, <<2, 2>> } : InitDevice(d)
  /\ InitSketch
  /\ codec = NoCodec
  /\ store = NoStore
  /\ serial = [stage |-> "on", sent |-> << >>, read |-> << >>]
  /\ ss = NoSensor

SpecSerial == InitSerial /\ [][Next]_vars /\ WF_vars(Sketch)

(***************************************************************************)
(* The runs in which bus transactions fail: the device stops and resumes   *)
(* answering at any moment, and its counter holds any value, a valid one,  *)
(* one above MAX_ITEMS_IN_MEMORY or the 0xFFFF of an erased device.        *)
(***************************************************************************)
BusFlip ==
  /\ flips < MaxFlips
  /\ flips' = flips + 1
  /\ wireOk' = ~wireOk
  /\ UNCHANGED << eeprom, items, mode, pc, wq, rx, out, gpsValid, adds, crashes,
                  appended, base, pre, txns, codec, store, serial, ss >>

FaultDevices == { <<2, 2>>, <<MAX_ITEMS_IN_MEMORY + 1, 2>>, <<65535, 0>> }

InitFault ==
  /\ \E d \in FaultDevices : InitDevice(d)
  /\ InitSketch
  /\ codec = NoCodec
  /\ store = NoStore
  /\ serial = NoSerial
  /\ ss = NoSensor

NextFault == Next \/ BusFlip

SpecFault == InitFault /\ [][NextFault]_vars /\ WF_vars(Sketch)

(***************************************************************************)
(* The runs in which the receiver's bytes are counted.  The receiver sends *)
(* at any moment; SoftwareSerial keeps a byte until ss.read() takes it.    *)
(***************************************************************************)
SensorArrive ==
  /\ ss.stage = "on"
  /\ ss.pending < MaxSensor
  /\ ss' = [ss EXCEPT !.pending = @ + 1]
  /\ UNCHANGED << eeprom, items, wireOk, mode, pc, wq, rx, out, gpsValid, adds,
                  crashes, appended, base, pre, txns, codec, store, serial, flips >>

InitSensor ==
  /\ \E d \in { <<0, 2>>, <<2, 2>> } : InitDevice(d)
  /\ InitSketch
  /\ codec = NoCodec
  /\ store = NoStore
  /\ serial = NoSerial
  /\ ss = [stage |-> "on", pending |-> 0, left |-> 0]

NextSensor == Next \/ SensorArrive

SpecSensor == InitSensor /\ [][NextSensor]_vars

(***************************************************************************)
(* Round-trip harness: write_location_item of one record into a slot, then *)
(* read_location_item of that slot.                                        *)
(***************************************************************************)
CodecFloats == { << F_32_1, F_34_8 >>, << F_M1, F_0 >> }
CodecSlots == { 0, MAX_ITEMS_IN_MEMORY - 1 }

InitCodec ==
  /\ InitDevice(<<0, 2>>)
  /\ InitSketch
  /\ \E f \in CodecFloats, h \in 0..MaxHour, m \in 0..MaxMinute, s \in 0..MaxSecond :
       codec = [stage |-> "in", loc |-> LocationItem(f[1], f[2], Time(h, m, s))]
  /\ store = NoStore
  /\ serial = NoSerial
  /\ ss = NoSensor

CodecWrite ==
  /\ codec.stage = "in"
  /\ \E index \in CodecSlots :
       /\ eeprom' = WriteLocationItem(eeprom, index, codec.loc)
       /\ codec' = [stage |-> "written", loc |-> codec.loc, index |-> index]
  /\ UNCHANGED << items, wireOk, mode, pc, wq, rx, out, gpsValid, adds, crashes,
                  appended, base, pre, txns, store, serial, ss, flips >>

CodecRead ==
  /\ codec.stage = "written"
  /\ codec' = [stage |-> "read", loc |-> codec.loc, index |-> codec.index,
               back |-> ReadLocationItem(eeprom, codec.index)]
  /\ UNCHANGED << eeprom, items, wireOk, mode, pc, wq, rx, out, gpsValid, adds,
                  crashes, appended, base, pre, txns, store, serial, ss, flips >>

NextCodec == CodecWrite \/ CodecRead

SpecCodec == InitCodec /\ [][NextCodec]_vars

(***************************************************************************)
(* Address harness: for one index below MAX_ITEMS_IN_MEMORY, the addresses *)
(* the record writes of an append to slot index issue and the addresses    *)
(* read_location_item of that index reads.                                 *)
(***************************************************************************)
InitAddr ==
  /\ InitDevice(<<0, 2>>)
  /\ InitSketch
  /\ \E index \in 0..(MAX_ITEMS_IN_MEMORY - 1) :
       codec = [stage |-> "slot", index |-> index]
  /\ store = NoStore
  /\ serial = NoSerial
  /\ ss = NoSensor

AddrAccess ==
  /\ codec.stage = "slot"
  /\ \E loc \in Fixes :
       codec' = [stage |-> "accessed", index |-> codec.index,
                 writes |-> [ k \in 1..SERIALIZED_LENGTH |->
                                AddWrites(codec.index, loc)[k][1] ],
                 reads |-> ItemReads(codec.index)]
  /\ UNCHANGED << eeprom, items, wireOk, mode, pc, wq, rx, out, gpsValid, adds,
                  crashes, appended, base, pre, txns, store, serial, ss, flips >>

NextAddr == AddrAccess

SpecAddr == InitAddr /\ [][NextAddr]_vars

(***************************************************************************)
(* Counter-range harness: add_location_item, and execute_command_export,   *)
(* on a device whose counter bytes hold any value from MAX_ITEMS_IN_MEMORY *)
(* to 0xFFFF, and on a device that does not answer.  The sketch is at the  *)
(* top of loop(), tracking with a fix or in command mode with a byte       *)
(* waiting; export is run on the counters that read negative.              *)
(***************************************************************************)
RangeCounters == MAX_ITEMS_IN_MEMORY..65535

InitRange ==
  /\ \/ \E c \in RangeCounters : InitDevice(<<c, 2>>) /\ wireOk = TRUE
     \/ InitDevice(<<2, 2>>) /\ wireOk = FALSE
  /\ \/ mode = MODE_TRACKING /\ gpsValid = TRUE /\ rx = 0
     \/ /\ mode = MODE_COMMAND /\ gpsValid = FALSE /\ rx = 1
        /\ ReadInt(eeprom, 0) < 0
  /\ flips = 0
  /\ pc = "loop"
  /\ wq = << >>
  /\ out = << >>
  /\ adds = 0
  /\ crashes = 0
  /\ appended = << >>
  /\ pre = NoOp
  /\ txns = 0
  /\ codec = NoCodec
  /\ store = NoStore
  /\ serial = NoSerial
  /\ ss = NoSensor

NextRange == AddLocationItem \/ CommandExport

SpecRange == InitRange /\ [][NextRange]_vars

(***************************************************************************)
(* Byte-store harness: calls of i2c_eeprom_write_byte with the physical    *)
(* write transactions counted, as a test double of the bus would.          *)
(***************************************************************************)
StoreAddrs == { 0, 2, 11 }
StoreBytes == { 0, 102, 255 }

InitStore ==
  /\ \E d \in InitDevices : InitDevice(d)
  /\ InitSketch
  /\ codec = NoCodec
  /\ store = [stage |-> "on", calls |-> << >>]
  /\ serial = NoSerial
  /\ ss = NoSensor

\* calls: the calls so far, each with the byte the device held at the address
\* and whether the call went on to the write transaction.
StoreWrite ==
  /\ store.stage = "on"
  /\ Len(store.calls) < MaxStoreOps
  /\ \E a \in StoreAddrs, d \in StoreBytes :
       /\ eeprom' = I2cWriteByte(eeprom, a, d)
       /\ txns' = txns + (IF I2cTransmits(eeprom, a, d) THEN 1 ELSE 0)
       /\ store' = [store EXCEPT !.calls =
                      Append(@, [a |-> a, d |-> d, old |-> Content(eeprom, a),
                                 sent |-> I2cTransmits(eeprom, a, d)])]
  /\ UNCHANGED << items, wireOk, mode, pc, wq, rx, out, gpsValid, adds, crashes,
                  appended, base, pre, codec, serial, ss, flips >>

NextStore == StoreWrite

SpecStore == InitStore /\ [][NextStore]_vars

(***************************************************************************)
(* Properties.                                                             *)
(***************************************************************************)
\* No function of the sketch is between two of its byte writes.
Settled == pc \in {"loop", "delay", "check"}

\* A record as the log keeps it: the hour in 12-hour form, the rest as given.
AsStored(loc) ==
  [loc EXCEPT !.time.hour = IF loc.time.hour > 12 THEN loc.time.hour - 12
                            ELSE loc.time.hour]

\* C1 (as amended): after N completed appends with no reset in between, the
\* counter is the counter they started from plus N, and slot base+k holds the
\* k-th appended record: latitude, longitude, minute and second unchanged, the
\* hour in 12-hour form (hour - 12 when hour > 12).
C1_AppendMonotonic ==
  Settled =>
    /\ Count(eeprom) = base + Len(appended)
    /\ \A k \in 1..Len(appended) :
         ReadLocationItem(eeprom, base + k - 1) = AsStored(appended[k])

\* C1 as stated: every appended record reads back unchanged.
C1_ReadsBackUnchanged ==
  Settled =>
    /\ Count(eeprom) = base + Len(appended)
    /\ \A k \in 1..Len(appended) :
         ReadLocationItem(eeprom, base + k - 1) = appended[k]

C1_Witness ==
  /\ pc = "loop"
  /\ base = 0
  /\ Len(appended) = 2
  /\ Count(eeprom) = 2
  /\ appended[1] # appended[2]

\* C2: when the stored counter is MAX_ITEMS_IN_MEMORY, add_location_item
\* takes the branch that stores nothing: it issues no byte write, no write
\* transaction happens, and the counter and every byte of the device stay as
\* they were.
C2_CapacityBoundary ==
  (pre.op = "add" /\ Count(pre.mem) = MAX_ITEMS_IN_MEMORY) =>
    /\ pc \in {"delay", "check"}
    /\ wq = << >>
    /\ txns = 0
    /\ Count(eeprom) = MAX_ITEMS_IN_MEMORY
    /\ \A a \in 0..(EEPROM_BYTES - 1) : Content(eeprom, a) = Content(pre.mem, a)

C2_Witness ==
  /\ pre.op = "add"
  /\ Count(pre.mem) = MAX_ITEMS_IN_MEMORY
  /\ pc = "delay"

\* C4: whenever no function is between two byte writes, the stored counter is
\* within 0..MAX_ITEMS_IN_MEMORY.
C4_CounterBound ==
  Settled => Count(eeprom) \in 0..MAX_ITEMS_IN_MEMORY

C4_Witness ==
  /\ pc = "loop"
  /\ mode = MODE_COMMAND
  /\ Count(eeprom) = MAX_ITEMS_IN_MEMORY
  /\ base < MAX_ITEMS_IN_MEMORY

\* The lines a standalone export prints for the device mem, written out from
\* the device content: the count line, then one line per counted record.
ItemLine(mem, index) == << "item", ReadLocationItem(mem, index) >>
RecordLines(lines) == { k \in 1..Len(lines) : lines[k][1] = "item" }

\* C5: reset issues byte writes to addresses 0 and 1 only; every byte at an
\* address >= 2 keeps the value it had when the command started, and when
\* the command is done the counter is 0.
C5_ResetFrame ==
  pre.op = "reset" =>
    /\ \A k \in 1..Len(wq) : wq[k][1] \in {0, 1}
    /\ \A a \in 2..(EEPROM_BYTES - 1) : Content(eeprom, a) = Content(pre.mem, a)
    /\ pc = "check" => Count(eeprom) = 0

C5_Witness ==
  /\ pre.op = "reset"
  /\ pc = "check"
  /\ Count(pre.mem) = 2
  /\ Count(eeprom) = 0
  /\ Content(eeprom, 2) # 0

\* C6: in reset, the export lines of the records counted when the command
\* started are all printed while the counter is still untouched; the
\* confirmation is printed only after both counter bytes are written, and
\* reports the counter read back, 0.
C6_ResetOrdering ==
  pre.op = "reset" =>
    LET n == Count(pre.mem)
        exported == SubSeq(out, 2, n + 2)
    IN  /\ Len(out) >= n + 2
        /\ exported[1] = << "read itemsCount=", n >>
        /\ \A k \in 1..n : exported[k + 1] = ItemLine(pre.mem, k - 1)
        /\ (pc = "reset_write" /\ Len(wq) = 2) => eeprom = pre.mem
        /\ pc \in {"reset_write", "reset_read"} => Len(out) = n + 2
        /\ pc = "check" =>
             /\ Len(out) = n + 4
             /\ out[n + 3] = << "Memory reset" >>
             /\ out[n + 4] = << "i=", 0 >>
             /\ ReadInt(eeprom, 0) = 0

C6_Witness ==
  /\ pre.op = "reset"
  /\ pc = "check"
  /\ Count(pre.mem) = MAX_ITEMS_IN_MEMORY
  /\ Len(out) = MAX_ITEMS_IN_MEMORY + 4

C10_CommandTerminal ==
  /\ mode = MODE_TRACKING
  /\ [](mode = MODE_COMMAND => pc \notin {"add_write", "delay"})
  /\ [][mode = MODE_COMMAND =>
          /\ mode' = MODE_COMMAND
          /\ pc' \notin {"add_write", "delay"}
          /\ adds' = adds
          /\ appended' = appended \/ appended' = << >>
          /\ gpsValid' = gpsValid]_vars

C10_Witness ==
  /\ mode = MODE_COMMAND
  /\ pc = "check"
  /\ pre.op = "idle"
  /\ adds = 1

\* C8: a record with hour in 0..23 and minute, second in 0..59, written to a
\* slot and read back, has its latitude and longitude bytes, minute and
\* second reproduced and its hour reproduced as hour mod 12, 12 as 12; the
\* stored word has the hour in bits 0-3, the minute in bits 4-9 and the
\* second in bits 10-15.
C8_RoundTrip ==
  ( /\ codec.stage = "read"
    /\ codec.loc.time.hour \in 0..23
    /\ codec.loc.time.minute \in 0..59
    /\ codec.loc.time.second \in 0..59 ) =>
    LET t == codec.loc.time
        word == Content(eeprom, 2 + 10 * codec.index + 8)
                  + 256 * Content(eeprom, 2 + 10 * codec.index + 9)
    IN  /\ codec.back.lat = codec.loc.lat
        /\ codec.back.lng = codec.loc.lng
        /\ codec.back.time.minute = t.minute
        /\ codec.back.time.second = t.second
        /\ codec.back.time.hour = IF t.hour = 12 THEN 12 ELSE t.hour % 12
        /\ word % 16 = codec.back.time.hour
        /\ (word \div 16) % 64 = t.minute
        /\ word \div 1024 = t.second

C8_Witness ==
  /\ codec.stage = "read"
  /\ codec.loc.time = Time(12, 59, 59)
  /\ codec.index = MAX_ITEMS_IN_MEMORY - 1
  /\ codec.back.time = Time(12, 59, 59)

\* C9: a call of i2c_eeprom_write_byte goes on to the write transaction iff
\* the byte stored at the address differs from the byte to write; so of two
\* calls in a row with the same address and byte the second never does, and
\* the two cause one transaction if the byte was not stored yet, else none.
C9_WearSkip ==
  store.stage = "on" =>
    LET calls == store.calls
    IN  /\ \A k \in 1..Len(calls) : calls[k].sent <=> calls[k].old # calls[k].d
        /\ txns = Cardinality({ k \in 1..Len(calls) : calls[k].sent })
        /\ \A k \in 2..Len(calls) :
             (calls[k].a = calls[k - 1].a /\ calls[k].d = calls[k - 1].d) =>
               /\ ~calls[k].sent
               /\ Cardinality({ j \in {k - 1, k} : calls[j].sent })
                    = IF calls[k - 1].old # calls[k].d THEN 1 ELSE 0
        /\ Len(calls) > 0 =>
             Content(eeprom, calls[Len(calls)].a) = calls[Len(calls)].d

C9_Witness ==
  /\ store.stage = "on"
  /\ Len(store.calls) = 2
  /\ store.calls[1].a = store.calls[2].a
  /\ store.calls[1].d = store.calls[2].d
  /\ store.calls[1].sent
  /\ ~store.calls[2].sent
  /\ txns = 1

\* A power loss while add_location_item is between two of its byte writes.
LostDuringAdd == pc = "add_write" /\ crashes' = crashes + 1

\* C3 (as amended): a power loss during an append leaves every slot below the
\* pre-append counter with its bytes; if the counter then reads one more than
\* before, the new slot holds the whole record; the counter reads the
\* pre-append value or one more, except when the power is lost between the
\* two counter byte writes and the new low byte is 0: then it reads the
\* pre-append value minus 255.
C3_CrashSafety ==
  [][LostDuringAdd =>
       LET before == Count(pre.mem)
           after == Count(eeprom')
       IN  /\ \A i \in 0..(before - 1) :
                ReadLocationItem(eeprom', i) = ReadLocationItem(pre.mem, i)
           /\ after = before + 1 =>
                ReadLocationItem(eeprom', before) = AsStored(pre.loc)
           /\ \/ after \in {before, before + 1}
              \/ /\ Len(wq) = 1
                 /\ (before + 1) % 256 = 0
                 /\ after = before - 255]_vars

\* C3 as stated: after a power loss during an append every record counted
\* before the append is still counted and reads back as before.
C3_StillCounted ==
  [][LostDuringAdd =>
       \A i \in 0..(Count(pre.mem) - 1) :
         /\ i < Count(eeprom')
         /\ ReadLocationItem(eeprom', i) = ReadLocationItem(pre.mem, i)]_vars

\* The power is lost after the last record byte and before the counter.
C3_Witness ==
  /\ pc = "add_write"
  /\ Len(wq) = 2
  /\ crashes < MaxCrashes
  /\ Count(pre.mem) = 255
  /\ ReadLocationItem(eeprom, 255) = AsStored(pre.loc)

\* The command execute_command runs for a byte Serial.read() returned.
Dispatched(inChar) ==
  IF inChar = 48 THEN "help"
  ELSE IF inChar = 49 THEN "export"
  ELSE IF inChar = 50 THEN "reset"
  ELSE "ignored"

C12_UnrecognizedInert ==
  /\ [](/\ pre.op \in {"ignored", "help", "export", "reset"} =>
             (pre.op = "ignored" <=> pre.inChar \notin {48, 49, 50})
        /\ pre.op = "ignored" =>
             /\ pc = "check"
             /\ out = << << ">>>> ", pre.inChar >> >>
             /\ pre.reads = [ints |-> {}, slots |-> {}]
             /\ wq = << >>
             /\ txns = 0
             /\ eeprom = pre.mem
             /\ Count(eeprom) = Count(pre.mem))
  /\ [][pre'.op = "ignored" /\ pre.op # "ignored" =>
          /\ rx' = rx - 1
          /\ eeprom' = eeprom]_vars

\* The digit '7' has been read on a device that counts two records.
C12_Witness ==
  /\ pre.op = "ignored"
  /\ pre.inChar = 55
  /\ rx = 0
  /\ Count(eeprom) = 2
  /\ appended # << >>

\* The 12 byte writes of an append of loc to a log counting n records, written
\* out: longitude, latitude, packed time at 2 + 10*n, then the counter n + 1.
AppendOrder(n, loc) ==
  LET a == 2 + 10 * n
      h == IF loc.time.hour > 12 THEN loc.time.hour - 12 ELSE loc.time.hour
      w == (h + 16 * loc.time.minute + 1024 * loc.time.second) % 65536
  IN  << << a, loc.lng[1] >>, << a + 1, loc.lng[2] >>,
         << a + 2, loc.lng[3] >>, << a + 3, loc.lng[4] >>,
         << a + 4, loc.lat[1] >>, << a + 5, loc.lat[2] >>,
         << a + 6, loc.lat[3] >>, << a + 7, loc.lat[4] >>,
         << a + 8, w % 256 >>, << a + 9, w \div 256 >>,
         << 0, (n + 1) % 256 >>, << 1, (n + 1) \div 256 >> >>

\* C13: an append to a log counting n < MAX_ITEMS_IN_MEMORY records issues
\* its byte writes in this order: the 4 longitude bytes, the 4 latitude
\* bytes and the 2 packed-time bytes at 2 + 10*n .. 2 + 10*n + 9, then the two
\* counter bytes; the counter bytes are as before the append until all 10
\* record bytes are stored; when the append is done the counter is n + 1.  No
\* step outside the byte writes of an append or a reset changes the counter.
C13_AppendWriteOrder ==
  /\ [](pre.op = "add" =>
          LET n == Count(pre.mem)
              order == AppendOrder(n, pre.loc)
              done == 12 - Len(wq)
          IN  /\ pc = "add_write" =>
                   /\ n < MAX_ITEMS_IN_MEMORY
                   /\ Len(wq) \in 1..12
                   /\ wq = SubSeq(order, done + 1, 12)
                   /\ \A k \in 1..done : Content(eeprom, order[k][1]) = order[k][2]
                   /\ done <= 10 =>
                        /\ Content(eeprom, 0) = Content(pre.mem, 0)
                        /\ Content(eeprom, 1) = Content(pre.mem, 1)
              /\ (pc \in {"delay", "check"} /\ n < MAX_ITEMS_IN_MEMORY) =>
                   /\ Count(eeprom) = n + 1
                   /\ \A k \in 1..12 : Content(eeprom, order[k][1]) = order[k][2])
  /\ [][pc \notin {"add_write", "reset_write"} =>
          Count(eeprom') = Count(eeprom)]_vars

\* An append at counter 255 is done: the counter carried into its high byte.
C13_Witness ==
  /\ pre.op = "add"
  /\ pc = "delay"
  /\ Count(pre.mem) = 255
  /\ Count(eeprom) = 256
  /\ Content(eeprom, 2 + 10 * 255 + 9) # 255

\* C14 (as amended): add_location_item is called only at the top of a loop()
\* iteration in MODE_TRACKING, that is when the check that ended the
\* iteration before found no byte waiting; a byte that arrives after that
\* check does not stop the append.  Tracking reads no control byte, so the
\* byte is still waiting at the check after the append, which sets
\* MODE_COMMAND; from then on no append starts.
C14_SamplingStops ==
  /\ [](/\ mode = MODE_COMMAND => pc \notin {"add_write", "delay"}
        /\ (pre.op = "add" /\ pre.avail) => (mode = MODE_TRACKING /\ rx > 0))
  /\ [][adds' = adds + 1 => (mode = MODE_TRACKING /\ pc = "loop")]_vars
  /\ [][mode = MODE_TRACKING => rx' >= rx]_vars
  /\ [][(pc = "check" /\ pc' = "loop" /\ rx > 0) => mode' = MODE_COMMAND]_vars
  /\ [][mode = MODE_COMMAND => (mode' = MODE_COMMAND /\ adds' = adds)]_vars

\* C14 as stated: no append starts while a control byte is waiting.
C14_NoAppendWhilePending ==
  pre.op = "add" => ~pre.avail

\* An append that started with a control byte waiting is writing its record.
C14_Witness ==
  /\ pre.op = "add"
  /\ pre.avail
  /\ pc = "add_write"
  /\ Len(wq) = 12
  /\ rx = 1

\* C15 as stated: when a wait of the sketch ends, be it the settle delay of a
\* performed byte write or the tracking interval, no byte the receiver sent
\* during the wait is left unread in ss.
C15_WaitsDrain ==
  ss.stage = "on" => ss.left = 0

\* C16: for every index in 0..MAX_ITEMS_IN_MEMORY-1 the record writes of an
\* append and the reads of read_location_item go to the ten addresses
\* 2 + 10*index .. 2 + 10*index + 9, in ascending order, the 16-bit
\* computation giving the exact value; the addresses are at least 2, below
\* 32768 (the size of the device and the range of int), and the slot of no
\* other index shares an address with them.
C16_AddressBounds ==
  codec.stage = "accessed" =>
    LET first == 2 + 10 * codec.index
    IN  /\ codec.writes = [ k \in 1..10 |-> first + k - 1 ]
        /\ codec.reads = [ k \in 1..10 |-> first + k - 1 ]
        /\ first >= 2
        /\ first + 9 < EEPROM_BYTES
        /\ \A j \in 0..(MAX_ITEMS_IN_MEMORY - 1) :
             j # codec.index =>
               \/ ItemReads(j)[10] < first
               \/ ItemReads(j)[1] > first + 9

\* The last slot: its ten addresses end at 32751.
C16_Witness ==
  /\ codec.stage = "accessed"
  /\ codec.index = MAX_ITEMS_IN_MEMORY - 1
  /\ codec.writes[10] = 32751
  /\ codec.reads[1] = 32742

\* C17: help calls neither read_int nor read_location_item and issues no
\* byte write; it prints, after the echo, the banner and one line for each of
\* the commands 0, 1, 2.  Export issues no byte write and no write
\* transaction happens; it calls read_int for the counter at address 0 and
\* read_location_item for the indices 0 .. counter-1 only.  After either
\* command every byte of the device, the counter included, is as before.
C17_ReadOnlyCommands ==
  /\ [](/\ pre.op = "help" =>
             /\ pc = "check"
             /\ pre.reads.ints = {} /\ pre.reads.slots = {}
             /\ Len(out) = 1 + 1 + 3
             /\ \A k \in 2..5 : out[k] = << "help", k - 2 >>
        /\ pre.op = "export" =>
             /\ pc = "check"
             /\ pre.reads.ints = {0}
             /\ pre.reads.slots = { k \in 0..MAX_ITEMS_IN_MEMORY : k < Count(pre.mem) }
        /\ pre.op \in {"help", "export"} =>
             /\ wq = << >>
             /\ txns = 0
             /\ eeprom = pre.mem
             /\ Count(eeprom) = Count(pre.mem))
  /\ [][pre'.op \in {"help", "export"} => eeprom' = eeprom]_vars

\* Export on a log that counts one record and has a stale record behind it:
\* slot 0 is read, slot 1 is not.
C17_Witness ==
  /\ pre.op = "export"
  /\ Count(pre.mem) = 1
  /\ items = 2
  /\ pre.reads.slots = {0}
  /\ Content(eeprom, 12) # 255

\* C18: an append issues at most 12 byte writes and a reset 2, each step of
\* either is the next of them whatever the bus does, and both reach the end
\* of their loop() iteration; export, alone or in reset, prints the counter
\* it read, -1 (0xFFFF) when the reads fail, and then as many record lines as
\* that value, none when it is not positive; an append that reads the
\* counter over a failed bus reads -1 and writes nothing.
C18_RunToCompletion ==
  /\ [](/\ pc = "add_write" => (pre.op = "add" /\ Len(wq) \in 1..12)
        /\ pc = "reset_write" => (pre.op = "reset" /\ Len(wq) \in 1..2)
        /\ pc \notin {"add_write", "reset_write"} => wq = << >>
        /\ pre.op \in {"export", "reset"} =>
             LET n == out[2][2]
             IN  /\ out[2][1] = "read itemsCount="
                 /\ n = IF pre.wire THEN S16(Count(pre.mem)) ELSE -1
                 /\ Cardinality(RecordLines(out)) = IF n > 0 THEN n ELSE 0
        /\ (pre.op = "add" /\ ~pre.wire) =>
             (pre.i = -1 /\ wq = << >> /\ eeprom = pre.mem))
  /\ [][(pc \in {"add_write", "reset_write"} /\ (pc' # pc \/ wq' # wq)) =>
          wq' = Tail(wq)]_vars
  /\ (pc \in {"add_write", "reset_write"}) ~> (pc = "check" /\ wq = << >>)

\* A reset that found two records; the bus failed after the export: neither
\* counter byte was stored and the counter read back as -1.
C18_Witness ==
  /\ pre.op = "reset"
  /\ pc = "check"
  /\ pre.wire
  /\ Count(pre.mem) = 2
  /\ Count(eeprom) = 2
  /\ out[Len(out)] = << "i=", -1 >>

\* A power loss between the two byte writes of write_int(0, ...), in an
\* append or in a reset.
LostInCounterWrite ==
  /\ crashes' = crashes + 1
  /\ pc \in {"add_write", "reset_write"}
  /\ Len(wq) = 1
  /\ wq[1][1] = 1

\* Slot k holds all 10 bytes of one record: the record an earlier run left
\* there, no byte of it written since, or else bytes that read back as one of
\* the records the run appends.
WholeRecord(mem, k) ==
  \/ /\ k < items
     /\ \A a \in DOMAIN mem : a < 2 + 10 * k \/ a > 2 + 10 * k + 9
  \/ ReadLocationItem(mem, k) \in { AsStored(f) : f \in Fixes }

\* C19 (as amended): a power loss between the two byte writes of the counter
\* leaves, in a reset, a counter that is at most the counter before it; in an
\* append, either that (the low byte wrapped to 0: the counter before minus
\* 255) or the counter before plus one with the new record stored whole.
\* So on a device whose counter starts at most MAX_ITEMS_IN_MEMORY with whole
\* records below it, through appends, resets and power losses the counter
\* is at most MAX_ITEMS_IN_MEMORY and every slot below it holds a whole
\* record, at every byte write.
C19_TornCounter ==
  /\ [](/\ Count(eeprom) <= MAX_ITEMS_IN_MEMORY
        /\ \A k \in 0..(Count(eeprom) - 1) : WholeRecord(eeprom, k))
  /\ [][LostInCounterWrite =>
          \/ Count(eeprom') <= Count(pre.mem)
          \/ /\ pre.op = "add"
             /\ Count(eeprom') = Count(pre.mem) + 1
             /\ ReadLocationItem(eeprom', Count(pre.mem)) = AsStored(pre.loc)]_vars

\* C19 as stated: a power loss between the two byte writes of the counter
\* leaves a counter that is at most the counter before the append or reset.
C19_TornNeverAbove ==
  [][LostInCounterWrite => Count(eeprom') <= Count(pre.mem)]_vars

\* The power was lost in an append at counter 255 after the low counter byte:
\* the sketch restarted on a counter of 0 with slot 255 written.
C19_Witness ==
  /\ crashes = 1
  /\ pc = "loop"
  /\ items = 255
  /\ Count(eeprom) = 0
  /\ Content(eeprom, 1) = 0
  /\ WholeRecord(eeprom, 255)

\* C20: when the counter bytes hold a value from MAX_ITEMS_IN_MEMORY to
\* 0xFFFF, or the device does not answer and the counter reads 0xFFFF,
\* add_location_item reads it as the int of those 16 bits, negative from
\* 32768 on, issues no byte write, and leaves the counter and the device as
\* they were; and export on a counter that reads negative prints the count
\* line and no record line.
C20_OutOfRangeBlocks ==
  /\ (pre.op = "add" /\ (Count(pre.mem) >= MAX_ITEMS_IN_MEMORY \/ ~pre.wire)) =>
       LET stored == IF pre.wire THEN Count(pre.mem) ELSE 65535
       IN  /\ pre.i = IF stored >= 32768 THEN stored - 65536 ELSE stored
           /\ pc \in {"delay", "check"}
           /\ wq = << >>
           /\ txns = 0
           /\ eeprom = pre.mem
           /\ Count(eeprom) = Count(pre.mem)
  /\ (pre.op = "export" /\ (Count(pre.mem) >= 32768 \/ ~pre.wire)) =>
       /\ out[2][2] < 0
       /\ Len(out) = 2
       /\ RecordLines(out) = {}
       /\ pre.reads.slots = {}

\* An append on an erased device: the counter 0xFFFF read as -1.
C20_Witness ==
  /\ pre.op = "add"
  /\ pre.wire
  /\ Count(pre.mem) = 65535
  /\ pre.i = -1
  /\ pc = "delay"
====
